---- MODULE Spec2Model ----
(***************************************************************************)
(* json-validate-codegen: the Encoder (Run / walk), the NamePath it pushes  *)
(* and pops, and the TypeScript Emitter it drives.                          *)
(*                                                                          *)
(* The recursion of Encoder.walk is modelled with an explicit stack of      *)
(* activation frames; every Go map iteration picks any remaining key (the   *)
(* language leaves the order unspecified); every write to the io.Writer may *)
(* fail, after any prefix of the template's chunks has been written.        *)
(***************************************************************************)
EXTENDS Naturals, Sequences, FiniteSets, TLC

VARIABLES
    registry,   \* Encoder.Registry.Schemas: sequence of [ID, Schema]
    idx,        \* Run: number of registry entries the range loop has taken
    pathID,     \* NamePath.SchemaID of the path of the root being walked
    segs,       \* NamePath.Segments of that path
    stack,      \* activations of Encoder.walk, innermost last
    ret,        \* <<>> or <<r>>: the (string, error) a walk has just returned
    calls,      \* every Emitter.Emit* call made so far, in order
    out,        \* Encoder.Out: the chunks written so far
    pc,         \* "run" while Run executes, "done" once it has returned
    result,     \* the error Run returned (Nil for nil)
    prev        \* <<>>, or <<r>>: what an earlier execution of Run left behind

vars == <<registry, idx, pathID, segs, stack, ret, calls, out, pc, result, prev>>

----------------------------------------------------------------------------
(* Bounds *)

\* most root schemas in a registry
MaxRoots == 2

\* most schema nodes in a registry, all its roots together
MaxNodes == 8

----------------------------------------------------------------------------
(* Values *)

Nil == "nil"

\* errors.New(...) of walk; the message quotes mapping in backquotes, which a
\* TLA+ string cannot hold
StructuralError == "schemas within mapping must use only properties and optionalProperties"

\* errors an io.Writer may return from Write
WriteErrors == {"write: broken pipe"}

EmptyMap == [k \in {} |-> ""]

----------------------------------------------------------------------------
(* jsonvalidate.Schema: one record shape per Kind *)

SEmpty == [Kind |-> "empty"]

SType(t) == [Kind |-> "type", Type |-> t]

SElements(c) == [Kind |-> "elements", Elements |-> c]

SValues(c) == [Kind |-> "values", Values |-> c]

SProperties(req, opt) ==
    [Kind |-> "properties", Properties |-> req, OptionalProperties |-> opt]

SDiscriminator(tag, mapping, req, opt) ==
    [Kind |-> "discriminator", DiscriminatorPropertyName |-> tag,
     DiscriminatorMapping |-> mapping,
     Properties |-> req, OptionalProperties |-> opt]

IsComposite(s) == s.Kind \in {"elements", "values", "properties", "discriminator"}

----------------------------------------------------------------------------
(* NamePath *)

ElementsSegment == [Elements |-> TRUE, Values |-> FALSE, Variants |-> FALSE, Property |-> ""]

ValuesSegment == [Elements |-> FALSE, Values |-> TRUE, Variants |-> FALSE, Property |-> ""]

VariantsSegment == [Elements |-> FALSE, Values |-> FALSE, Variants |-> TRUE, Property |-> ""]

PropertySegment(key) == [Elements |-> FALSE, Values |-> FALSE, Variants |-> FALSE, Property |-> key]

\* a Push that puts the segment in front
PushFront(s, segment) == <<segment>> \o s

\* a Push whose append is lost (a value receiver instead of *NamePath)
PushLost(s, segment) == s

Push(s, segment) == Append(s, segment)

\* a Pop that leaves the segment on the path
PopKeeps(s) == s

\* np.Segments[:len(np.Segments)-1]; the slice expression panics on an empty
\* slice, which the guards of the actions that pop exclude (CanPop).
Pop(s) == SubSeq(s, 1, Len(s) - 1)

CanPop(s) == Len(s) > 0

----------------------------------------------------------------------------
(* typescript.Emitter *)

PrimitiveEmpty == "any"

PrimitiveNull == "null"

PrimitiveBoolean == "boolean"

PrimitiveNumber == "number"

PrimitiveString == "string"

SegmentToken(s) ==
    IF s.Elements THEN "Element"
    ELSE IF s.Variants THEN "Variant"
    ELSE IF s.Values THEN "Value"
    ELSE s.Property

RECURSIVE AppendTokens(_, _, _)
AppendTokens(name, s, i) ==
    IF i > Len(s) THEN name
    ELSE AppendTokens(name \o SegmentToken(s[i]), s, i + 1)

\* name := "Default"; for _, s := range path.Segments { name = name + ... }
\* (path.SchemaID is not read)
TypeName(id, s) == AppendTokens("Default", s, 1)

\* all orders in which a range over a map with key set S may visit the keys
Orders(S) ==
    {o \in [1..Cardinality(S) -> S] : \A i, j \in 1..Cardinality(S) : o[i] = o[j] => i = j}

\* the optional members put before the required ones
StructArgsPropertiesOptionalFirst(required, optional, ro, oo) ==
    [i \in 1..Len(oo) |-> [Name |-> oo[i] \o "?", Type |-> optional[oo[i]]]]
    \o [i \in 1..Len(ro) |-> [Name |-> ro[i], Type |-> required[ro[i]]]]

\* args.Properties: required members in map order, then optional members
\* (key + "?") in map order
StructArgsProperties(required, optional, ro, oo) ==
    [i \in 1..Len(ro) |-> [Name |-> ro[i], Type |-> required[ro[i]]]]
    \o [i \in 1..Len(oo) |-> [Name |-> oo[i] \o "?", Type |-> optional[oo[i]]]]

\* the writes template.Execute makes: one per text node and per action
ArrayFmt(name, elements) == <<"export type ", name, " = ", elements, "[];\n">>

RECURSIVE StructMembers(_, _)
StructMembers(props, i) ==
    IF i > Len(props) THEN <<>>
    ELSE <<"\n  ", props[i].Name, ": ", props[i].Type, ";">> \o StructMembers(props, i + 1)

StructFmt(name, props) ==
    <<"export interface ", name, " {">> \o StructMembers(props, 1) \o <<"\n}\n">>

ValuesFmt(name, values) ==
    <<"export interface ", name, " {\n\t[key: string]: ", values, ";\n}\n">>

\* the template that writes the tag member; no Emit* executes it
VariantFmt(name, tagName, tagValue, props) ==
    <<"export interface ", name, " {\n\t", tagName, ": \"", tagValue, "\";">>
    \o StructMembers(props, 1) \o <<"\n}\n">>

RECURSIVE UnionMembers(_, _)
UnionMembers(variants, i) ==
    IF i > Len(variants) THEN <<>>
    ELSE <<"\n\t">> \o (IF i > 1 THEN <<"|">> ELSE <<>>) \o <<" ", variants[i]>>
         \o UnionMembers(variants, i + 1)

UnionFmt(name, variants) ==
    <<"export type ", name, " =">> \o UnionMembers(variants, 1) \o <<"\n">>

\* template.Execute(out, args): every chunk written and nil, or a write
\* fails: the chunks before it are on the sink and the writer's error comes back
ExecuteOutcomes(chunks) ==
    {[written |-> chunks, err |-> Nil]}
    \cup {[written |-> SubSeq(chunks, 1, k), err |-> e] :
            k \in 0..(Len(chunks) - 1), e \in WriteErrors}


\* a descriptor handed a path without the segments pushed so far
NamePathWithoutSegments(id, s) == [SchemaID |-> id, Segments |-> <<>>]

\* the composite descriptors handed to the Emitter; Path is the *NamePath,
\* read at the time of the call
NamePath(id, s) == [SchemaID |-> id, Segments |-> s]

\* each Emit* below yields the name it returns and the writes its template makes

EmitArray(array) ==
    LET name == TypeName(array.Path.SchemaID, array.Path.Segments)
    IN  [name |-> name, text |-> ArrayFmt(name, array.Elements)]

\* ro, oo: the orders in which the two map ranges visit the keys
EmitStruct(strukt, ro, oo) ==
    LET name == TypeName(strukt.Path.SchemaID, strukt.Path.Segments)
    IN  [name |-> name,
         text |-> StructFmt(name, StructArgsProperties(strukt.RequiredProperties,
                                                       strukt.OptionalProperties, ro, oo))]

EmitValues(values) ==
    LET name == TypeName(values.Path.SchemaID, values.Path.Segments)
    IN  [name |-> name, text |-> ValuesFmt(name, values.Values)]

\* variantArgs carries TagName and TagValue, but the template executed is structFmt
EmitVariant(variant, ro, oo) ==
    LET name == TypeName(variant.Path.SchemaID, variant.Path.Segments)
    IN  [name |-> name,
         text |-> StructFmt(name, StructArgsProperties(variant.RequiredProperties,
                                                       variant.OptionalProperties, ro, oo))]

EmitUnion(union) ==
    LET name == TypeName(union.Path.SchemaID, union.Path.Segments)
    IN  [name |-> name, text |-> UnionFmt(name, union.Variants)]

----------------------------------------------------------------------------
(* Encoder.walk: activation frames *)

NewFrame(schema, entry) ==
    [schema |-> schema, pc |-> "start",
     entry |-> entry,              \* path.Segments when walk was entered
     required |-> EmptyMap, optional |-> EmptyMap,
     \* keys the two property ranges have left
     todoReq |-> IF schema.Kind = "properties" THEN DOMAIN schema.Properties ELSE {},
     todoOpt |-> IF schema.Kind = "properties" THEN DOMAIN schema.OptionalProperties ELSE {},
     key |-> "",                   \* property key of the child being walked
     variants |-> <<>>,
     todoMap |-> {},               \* keys the range over the mapping has left
     tag |-> ""]                   \* mapping key of the variant being built

Top == stack[Len(stack)]

Walking == pc = "run" /\ stack # <<>>

\* an error check that never sees an error
NeverFailed(err) == FALSE

\* if err != nil
Failed(err) == err # Nil

\* walk(path, child) called from the frame f (the caller's frame as it waits)
Call(f, child, newSegs) ==
    stack' = Append([stack EXCEPT ![Len(stack)] = f], NewFrame(child, newSegs))

Continue(f) == stack' = [stack EXCEPT ![Len(stack)] = f]

\* return name, err -- from the activation f; what it returns is kept with
\* the schema it walked, the path it was entered with and its locals
ReturnFrom(f, name, err) ==
    /\ stack' = SubSeq(stack, 1, Len(stack) - 1)
    /\ ret' = <<[name |-> name, err |-> err,
                 entry |-> f.entry, schema |-> f.schema, frame |-> f]>>

\* a return that loses the name
ReturnEmptyName(name, err) == ReturnFrom(Top, "", err)

\* a return that loses the error
ReturnNoError(name, err) == ReturnFrom(Top, name, Nil)

Return(name, err) == ReturnFrom(Top, name, err)

\* one Emitter call: the descriptor, what the Emitter returned, and what it
\* left on the sink
Record(op, desc, name, err, written) ==
    /\ calls' = Append(calls, [op |-> op, desc |-> desc, id |-> desc.Path.SchemaID,
                               segs |-> desc.Path.Segments, name |-> name, err |-> err,
                               schema |-> Top.schema, written |-> written])
    /\ out' = out \o written

\* a switch without the case for boolean: the walk falls to return "", nil
PrimitiveNameNoBoolean(schema) ==
    CASE schema.Kind = "empty" -> PrimitiveEmpty
      [] schema.Kind = "type" /\ schema.Type = "null" -> PrimitiveNull
      [] schema.Kind = "type" /\ schema.Type = "number" -> PrimitiveNumber
      [] schema.Kind = "type" /\ schema.Type = "string" -> PrimitiveString
      [] OTHER -> ""

PrimitiveName(schema) ==
    CASE schema.Kind = "empty" -> PrimitiveEmpty
      [] schema.Kind = "type" /\ schema.Type = "null" -> PrimitiveNull
      [] schema.Kind = "type" /\ schema.Type = "boolean" -> PrimitiveBoolean
      [] schema.Kind = "type" /\ schema.Type = "number" -> PrimitiveNumber
      [] schema.Kind = "type" /\ schema.Type = "string" -> PrimitiveString
      [] OTHER -> ""

\* case SchemaKindEmpty, SchemaKindType (and the final return "", nil)
WalkPrimitive ==
    /\ Walking /\ Top.pc = "start" /\ ret = <<>>
    /\ ~IsComposite(Top.schema)
    /\ Return(PrimitiveName(Top.schema), Nil)
    /\ UNCHANGED <<registry, idx, pathID, segs, calls, out, pc, result, prev>>

\* case SchemaKindElements: path.Push; e.walk(path, schema.Elements)
WalkElementsPush ==
    /\ Walking /\ Top.pc = "start" /\ ret = <<>>
    /\ Top.schema.Kind = "elements"
    /\ segs' = Push(segs, ElementsSegment)
    /\ Call([Top EXCEPT !.pc = "elements"], Top.schema.Elements, segs')
    /\ UNCHANGED <<registry, idx, pathID, ret, calls, out, pc, result, prev>>

\* ... if err != nil { return "", err }; path.Pop(); return EmitArray(...)
WalkElementsEmit ==
    /\ Walking /\ Top.pc = "elements" /\ ret # <<>>
    /\ IF Failed(ret[1].err)
       THEN /\ Return("", ret[1].err)
            /\ UNCHANGED <<segs, calls, out>>
       ELSE /\ CanPop(segs)
            /\ segs' = Pop(segs)
            /\ LET array == [Path |-> NamePath(pathID, segs'), Elements |-> ret[1].name]
                   e == EmitArray(array)
               IN  \E o \in ExecuteOutcomes(e.text) :
                      /\ Record("EmitArray", array, e.name, o.err, o.written)
                      /\ Return(e.name, o.err)
    /\ UNCHANGED <<registry, idx, pathID, pc, result, prev>>

\* case SchemaKindValues: path.Push; e.walk(path, schema.Values)
WalkValuesPush ==
    /\ Walking /\ Top.pc = "start" /\ ret = <<>>
    /\ Top.schema.Kind = "values"
    /\ segs' = Push(segs, ValuesSegment)
    /\ Call([Top EXCEPT !.pc = "values"], Top.schema.Values, segs')
    /\ UNCHANGED <<registry, idx, pathID, ret, calls, out, pc, result, prev>>

\* ... if err != nil { return "", err }; path.Pop(); return EmitValues(...)
WalkValuesEmit ==
    /\ Walking /\ Top.pc = "values" /\ ret # <<>>
    /\ IF Failed(ret[1].err)
       THEN /\ Return("", ret[1].err)
            /\ UNCHANGED <<segs, calls, out>>
       ELSE /\ CanPop(segs)
            /\ segs' = Pop(segs)
            /\ LET values == [Path |-> NamePath(pathID, segs'), Values |-> ret[1].name]
                   e == EmitValues(values)
               IN  \E o \in ExecuteOutcomes(e.text) :
                      /\ Record("EmitValues", values, e.name, o.err, o.written)
                      /\ Return(e.name, o.err)
    /\ UNCHANGED <<registry, idx, pathID, pc, result, prev>>


\* EmitStruct / EmitVariant called with the optional properties still to walk
RequiredResolved(f) == f.todoReq = {}

\* both range loops over the property maps have run to their end
AllResolved(f) == f.todoReq = {} /\ f.todoOpt = {}

\* case SchemaKindProperties, first loop: for key, value := range schema.Properties
\* { path.Push(NamePathSegment{Property: key}); e.walk(path, value) ...
WalkPropertiesRequired ==
    /\ Walking /\ Top.pc = "start" /\ ret = <<>>
    /\ Top.schema.Kind = "properties"
    /\ \E key \in Top.todoReq :
          /\ segs' = Push(segs, PropertySegment(key))
          /\ Call([Top EXCEPT !.pc = "required", !.key = key, !.todoReq = @ \ {key}],
                  Top.schema.Properties[key], segs')
    /\ UNCHANGED <<registry, idx, pathID, ret, calls, out, pc, result, prev>>

\* ... if err != nil { return "", err }; required[key] = name; path.Pop() }
WalkPropertiesRequiredReturn ==
    /\ Walking /\ Top.pc = "required" /\ ret # <<>>
    /\ Top.schema.Kind = "properties"
    /\ IF Failed(ret[1].err)
       THEN /\ Return("", ret[1].err)
            /\ UNCHANGED segs
       ELSE /\ CanPop(segs)
            /\ segs' = Pop(segs)
            /\ Continue([Top EXCEPT !.pc = "start",
                                    !.required = (Top.key :> ret[1].name) @@ @])
            /\ ret' = <<>>
    /\ UNCHANGED <<registry, idx, pathID, calls, out, pc, result, prev>>

\* second loop: for key, value := range schema.OptionalProperties { ...
WalkPropertiesOptional ==
    /\ Walking /\ Top.pc = "start" /\ ret = <<>>
    /\ Top.schema.Kind = "properties"
    /\ Top.todoReq = {}
    /\ \E key \in Top.todoOpt :
          /\ segs' = Push(segs, PropertySegment(key))
          /\ Call([Top EXCEPT !.pc = "optional", !.key = key, !.todoOpt = @ \ {key}],
                  Top.schema.OptionalProperties[key], segs')
    /\ UNCHANGED <<registry, idx, pathID, ret, calls, out, pc, result, prev>>

\* ... if err != nil { return "", err }; optional[key] = name; path.Pop() }
WalkPropertiesOptionalReturn ==
    /\ Walking /\ Top.pc = "optional" /\ ret # <<>>
    /\ Top.schema.Kind = "properties"
    /\ IF Failed(ret[1].err)
       THEN /\ Return("", ret[1].err)
            /\ UNCHANGED segs
       ELSE /\ CanPop(segs)
            /\ segs' = Pop(segs)
            /\ Continue([Top EXCEPT !.pc = "start",
                                    !.optional = (Top.key :> ret[1].name) @@ @])
            /\ ret' = <<>>
    /\ UNCHANGED <<registry, idx, pathID, calls, out, pc, result, prev>>

\* return e.Emitter.EmitStruct(e.Out, Struct{...})
WalkPropertiesEmit ==
    /\ Walking /\ Top.pc = "start" /\ ret = <<>>
    /\ Top.schema.Kind = "properties"
    /\ AllResolved(Top)
    /\ LET strukt == [Path |-> NamePath(pathID, segs),
                      RequiredProperties |-> Top.required,
                      OptionalProperties |-> Top.optional]
       IN  \E ro \in Orders(DOMAIN Top.required), oo \in Orders(DOMAIN Top.optional) :
             LET e == EmitStruct(strukt, ro, oo)
             IN  \E o \in ExecuteOutcomes(e.text) :
                    /\ Record("EmitStruct", strukt, e.name, o.err, o.written)
                    /\ Return(e.name, o.err)
    /\ UNCHANGED <<registry, idx, pathID, segs, pc, result, prev>>


\* case SchemaKindDiscriminator: path.Push(NamePathSegment{Variants: true});
\* variants := []string{}
WalkDiscriminatorPush ==
    /\ Walking /\ Top.pc = "start" /\ ret = <<>>
    /\ Top.schema.Kind = "discriminator"
    /\ segs' = Push(segs, VariantsSegment)
    /\ Continue([Top EXCEPT !.pc = "mapping", !.variants = <<>>,
                            !.todoMap = DOMAIN Top.schema.DiscriminatorMapping])
    /\ UNCHANGED <<registry, idx, pathID, ret, calls, out, pc, result, prev>>

\* a kind check that lets every mapping entry through
NeverNotProperties(variant) == FALSE

\* variant.Kind != jsonvalidate.SchemaKindProperties
NotProperties(variant) == variant.Kind # "properties"

\* an error that names the mapping key
MappingErrorWithKey(key) == StructuralError \o ": " \o key

\* errors.New("schemas within `mapping` must use only ..."), built where the
\* loop variable key is in scope
MappingError(key) == StructuralError

\* the name put in front of the list
PrependVariant(variants, name) == <<name>> \o variants

\* variants = append(variants, name)
AppendVariant(variants, name) == Append(variants, name)

\* the required properties of the mapping entry itself
VariantRequiredOwn(schema, tag) == schema.DiscriminatorMapping[tag].Properties

\* inside the mapping loop: range schema.Properties, where schema is the
\* discriminator schema, whatever the entry (tag) being built
VariantRequired(schema, tag) == schema.Properties

\* inside the mapping loop: range schema.OptionalProperties, likewise
VariantOptional(schema, tag) == schema.OptionalProperties

\* for key, variant := range schema.DiscriminatorMapping { if variant.Kind !=
\* SchemaKindProperties { return "", errors.New(...) }; path.Push(Property: key);
\* required := map[string]string{} ...
WalkDiscriminatorMapping ==
    /\ Walking /\ Top.pc = "mapping" /\ ret = <<>>
    /\ \E key \in Top.todoMap :
          IF NotProperties(Top.schema.DiscriminatorMapping[key])
          THEN /\ ReturnFrom([Top EXCEPT !.tag = key], "", MappingError(key))
               /\ UNCHANGED segs
          ELSE /\ segs' = Push(segs, PropertySegment(key))
               /\ Continue([Top EXCEPT !.pc = "variant", !.tag = key,
                                       !.todoMap = @ \ {key},
                                       !.required = EmptyMap, !.optional = EmptyMap,
                                       !.todoReq = DOMAIN VariantRequired(Top.schema, key),
                                       !.todoOpt = DOMAIN VariantOptional(Top.schema, key)])
               /\ UNCHANGED ret
    /\ UNCHANGED <<registry, idx, pathID, calls, out, pc, result, prev>>

\* inside the mapping loop: for key, value := range schema.Properties { ...
WalkVariantRequired ==
    /\ Walking /\ Top.pc = "variant" /\ ret = <<>>
    /\ \E key \in Top.todoReq :
          /\ segs' = Push(segs, PropertySegment(key))
          /\ Call([Top EXCEPT !.pc = "variantRequired", !.key = key, !.todoReq = @ \ {key}],
                  VariantRequired(Top.schema, Top.tag)[key], segs')
    /\ UNCHANGED <<registry, idx, pathID, ret, calls, out, pc, result, prev>>

\* ... if err != nil { return "", err }; required[key] = name; path.Pop() }
WalkVariantRequiredReturn ==
    /\ Walking /\ Top.pc = "variantRequired" /\ ret # <<>>
    /\ IF Failed(ret[1].err)
       THEN /\ Return("", ret[1].err)
            /\ UNCHANGED segs
       ELSE /\ CanPop(segs)
            /\ segs' = Pop(segs)
            /\ Continue([Top EXCEPT !.pc = "variant",
                                    !.required = (Top.key :> ret[1].name) @@ @])
            /\ ret' = <<>>
    /\ UNCHANGED <<registry, idx, pathID, calls, out, pc, result, prev>>

\* inside the mapping loop: for key, value := range schema.OptionalProperties { ...
WalkVariantOptional ==
    /\ Walking /\ Top.pc = "variant" /\ ret = <<>>
    /\ Top.todoReq = {}
    /\ \E key \in Top.todoOpt :
          /\ segs' = Push(segs, PropertySegment(key))
          /\ Call([Top EXCEPT !.pc = "variantOptional", !.key = key, !.todoOpt = @ \ {key}],
                  VariantOptional(Top.schema, Top.tag)[key], segs')
    /\ UNCHANGED <<registry, idx, pathID, ret, calls, out, pc, result, prev>>

\* ... if err != nil { return "", err }; optional[key] = name; path.Pop() }
WalkVariantOptionalReturn ==
    /\ Walking /\ Top.pc = "variantOptional" /\ ret # <<>>
    /\ IF Failed(ret[1].err)
       THEN /\ Return("", ret[1].err)
            /\ UNCHANGED segs
       ELSE /\ CanPop(segs)
            /\ segs' = Pop(segs)
            /\ Continue([Top EXCEPT !.pc = "variant",
                                    !.optional = (Top.key :> ret[1].name) @@ @])
            /\ ret' = <<>>
    /\ UNCHANGED <<registry, idx, pathID, calls, out, pc, result, prev>>

\* name, err := e.Emitter.EmitVariant(e.Out, Variant{...}); if err != nil
\* { return "", err }; path.Pop(); variants = append(variants, name) }
WalkVariantEmit ==
    /\ Walking /\ Top.pc = "variant" /\ ret = <<>>
    /\ AllResolved(Top)
    /\ LET variant == [Path |-> NamePath(pathID, segs),
                       TagName |-> Top.schema.DiscriminatorPropertyName,
                       TagValue |-> Top.tag,
                       RequiredProperties |-> Top.required,
                       OptionalProperties |-> Top.optional]
       IN  \E ro \in Orders(DOMAIN Top.required), oo \in Orders(DOMAIN Top.optional) :
             LET e == EmitVariant(variant, ro, oo)
             IN  \E o \in ExecuteOutcomes(e.text) :
                    /\ Record("EmitVariant", variant, e.name, o.err, o.written)
                    /\ IF Failed(o.err)
                       THEN /\ Return("", o.err)
                            /\ UNCHANGED segs
                       ELSE /\ CanPop(segs)
                            /\ segs' = Pop(segs)
                            /\ Continue([Top EXCEPT !.pc = "mapping",
                                                    !.variants = AppendVariant(@, e.name)])
                            /\ UNCHANGED ret
    /\ UNCHANGED <<registry, idx, pathID, pc, result, prev>>

\* after the mapping loop: path.Pop(); return e.Emitter.EmitUnion(e.Out, Union{...})
WalkDiscriminatorEmit ==
    /\ Walking /\ Top.pc = "mapping" /\ ret = <<>>
    /\ Top.todoMap = {}
    /\ CanPop(segs)
    /\ segs' = Pop(segs)
    /\ LET union == [Path |-> NamePath(pathID, segs'), Variants |-> Top.variants]
           e == EmitUnion(union)
       IN  \E o \in ExecuteOutcomes(e.text) :
              /\ Record("EmitUnion", union, e.name, o.err, o.written)
              /\ Return(e.name, o.err)
    /\ UNCHANGED <<registry, idx, pathID, pc, result, prev>>

----------------------------------------------------------------------------
(* Encoder.Run *)

\* a path seeded with the identifier of the first root schema, whichever
\* root is walked
RootPathOfFirst(schema) == NamePath(registry[1].ID, <<>>)

\* path := NamePath{SchemaID: schema.ID, Segments: []NamePathSegment{}}
RootPath(schema) == NamePath(schema.ID, <<>>)

\* for _, schema := range e.Registry.Schemas { path := NamePath{SchemaID:
\* schema.ID, Segments: []NamePathSegment{}}; e.walk(&path, schema) ...
RunWalk ==
    /\ pc = "run" /\ stack = <<>> /\ ret = <<>>
    /\ idx < Len(registry)
    /\ idx' = idx + 1
    /\ pathID' = RootPath(registry[idx']).SchemaID
    /\ segs' = RootPath(registry[idx']).Segments
    /\ stack' = <<NewFrame(registry[idx'].Schema, segs')>>
    /\ UNCHANGED <<registry, ret, calls, out, pc, result, prev>>

\* ... if _, err := e.walk(&path, schema); err != nil { return err } }
RunWalkReturn ==
    /\ pc = "run" /\ stack = <<>> /\ ret # <<>>
    /\ IF Failed(ret[1].err)
       THEN pc' = "done" /\ result' = ret[1].err
       ELSE UNCHANGED <<pc, result>>
    /\ ret' = <<>>
    /\ UNCHANGED <<registry, idx, pathID, segs, stack, calls, out, prev>>

\* return nil
RunReturnNil ==
    /\ pc = "run" /\ stack = <<>> /\ ret = <<>>
    /\ idx = Len(registry)
    /\ pc' = "done" /\ result' = Nil
    /\ UNCHANGED <<registry, idx, pathID, segs, stack, ret, calls, out, prev>>


\* main.run: encoder := codegen.Encoder{Out: os.Stdout, Registry: registry,
\* Emitter: &typescript.Emitter{}}; return encoder.Run() -- executed once more
\* on the same registry after an execution that returned nil
RunAgain ==
    /\ pc = "done" /\ result = Nil /\ prev = <<>>
    /\ prev' = <<[calls |-> calls, out |-> out, result |-> result]>>
    /\ pc' = "run" /\ idx' = 0 /\ calls' = <<>> /\ out' = <<>>
    /\ UNCHANGED <<registry, pathID, segs, stack, ret, result>>

----------------------------------------------------------------------------
(* The registries walked *)

Str == SType("string")

Num == SType("number")

Arr == SElements(Str)

Dict == SValues(Num)

NoProps == SProperties(EmptyMap, EmptyMap)

\* one required and one optional primitive member
Person == SProperties("a" :> Str, "b" :> Num)

\* two required composite members
Pair == SProperties(("a" :> Arr) @@ ("b" :> Dict), EmptyMap)

\* a required and an optional composite member
Mixed == SProperties("a" :> Arr, "b" :> Arr)

\* a mapping entry with a member of its own
OwnProps == SProperties("a" :> Arr, EmptyMap)

Tagged == SDiscriminator("type", ("x" :> NoProps) @@ ("y" :> NoProps), EmptyMap, EmptyMap)

TaggedOwn == SDiscriminator("type", ("x" :> OwnProps) @@ ("y" :> NoProps), "a" :> Str, "b" :> Arr)

\* mappings with an entry that is not of kind properties
BadOnly == SDiscriminator("type", "x" :> Arr, EmptyMap, EmptyMap)

BadX == SDiscriminator("type", ("x" :> Arr) @@ ("y" :> NoProps), "a" :> Arr, EmptyMap)

BadY == SDiscriminator("type", ("x" :> NoProps) @@ ("y" :> Arr), "a" :> Arr, EmptyMap)

Leaves == {SEmpty, SType("null"), SType("boolean"), Num, Str}

RootSchemas ==
    Leaves
    \cup {Arr} \cup {SElements(c) : c \in {Arr, Person, BadY}}
    \cup {SValues(c) : c \in {Str, Arr}}
    \cup {NoProps, Person, Pair, Mixed,
          SProperties("a" :> BadX, "b" :> Arr)}
    \cup {Tagged, TaggedOwn, BadOnly, BadX, BadY,
          SDiscriminator("kind", "x" :> NoProps, "a" :> Tagged, EmptyMap)}

RECURSIVE Size(_), SizeOfAll(_, _)
\* number of schema nodes of a tree
Size(schema) ==
    CASE schema.Kind = "elements" -> 1 + Size(schema.Elements)
      [] schema.Kind = "values" -> 1 + Size(schema.Values)
      [] schema.Kind = "properties" ->
            1 + SizeOfAll(schema.Properties, DOMAIN schema.Properties)
              + SizeOfAll(schema.OptionalProperties, DOMAIN schema.OptionalProperties)
      [] schema.Kind = "discriminator" ->
            1 + SizeOfAll(schema.DiscriminatorMapping, DOMAIN schema.DiscriminatorMapping)
              + SizeOfAll(schema.Properties, DOMAIN schema.Properties)
              + SizeOfAll(schema.OptionalProperties, DOMAIN schema.OptionalProperties)
      [] OTHER -> 1

SizeOfAll(m, keys) ==
    IF keys = {} THEN 0
    ELSE LET k == CHOOSE k \in keys : TRUE
         IN  Size(m[k]) + SizeOfAll(m, keys \ {k})

RECURSIVE TotalSize(_, _)
TotalSize(r, i) == IF i > Len(r) THEN 0 ELSE Size(r[i]) + TotalSize(r, i + 1)

\* Registry.Schemas: up to MaxRoots root schemas of at most MaxNodes nodes in
\* all, the i-th with identifier i
Registries ==
    {[i \in DOMAIN r |-> [ID |-> i, Schema |-> r[i]]] :
        r \in {q \in UNION {[1..n -> RootSchemas] : n \in 0..MaxRoots} :
                  TotalSize(q, 1) <= MaxNodes}}

----------------------------------------------------------------------------
(* Specifications *)

Init ==
    /\ registry \in Registries
    /\ idx = 0
    /\ pathID = 0
    /\ segs = <<>>
    /\ stack = <<>>
    /\ ret = <<>>
    /\ calls = <<>>
    /\ out = <<>>
    /\ pc = "run"
    /\ result = Nil
    /\ prev = <<>>

Walk ==
    \/ WalkPrimitive
    \/ WalkElementsPush
    \/ WalkElementsEmit
    \/ WalkValuesPush
    \/ WalkValuesEmit
    \/ WalkPropertiesRequired
    \/ WalkPropertiesRequiredReturn
    \/ WalkPropertiesOptional
    \/ WalkPropertiesOptionalReturn
    \/ WalkPropertiesEmit
    \/ WalkDiscriminatorPush
    \/ WalkDiscriminatorMapping
    \/ WalkVariantRequired
    \/ WalkVariantRequiredReturn
    \/ WalkVariantOptional
    \/ WalkVariantOptionalReturn
    \/ WalkVariantEmit
    \/ WalkDiscriminatorEmit

Next == Walk \/ RunWalk \/ RunWalkReturn \/ RunReturnNil

Spec == Init /\ [][Next]_vars

\* two executions of Run on one registry
NextTwice == Next \/ RunAgain

SpecTwice == Init /\ [][NextTwice]_vars

\* Run is one sequential call: it takes its next step as long as it has one
SpecLive == Init /\ [][Next]_vars /\ WF_vars(Next)


----------------------------------------------------------------------------
(* Properties *)

IsPrefix(p, s) == Len(p) <= Len(s) /\ SubSeq(s, 1, Len(p)) = p

IsProperPrefix(p, s) == Len(p) < Len(s) /\ SubSeq(s, 1, Len(p)) = p

LastCall == calls[Len(calls)]

\* a walk has just returned, with or without an error
Returned == ret # <<>>

\* C1: when walk returns without error, the path's segments are the ones it
\* had when walk was entered.
C1_PathRestoredOnSuccess ==
    (Returned /\ ret[1].err = Nil) => segs = ret[1].entry

\* a discriminator walked below the root has returned without error, after
\* its pushes and pops
C1_Witness ==
    /\ Returned /\ ret[1].err = Nil
    /\ ret[1].schema.Kind = "discriminator"
    /\ ret[1].frame.variants # <<>>
    /\ ret[1].entry # <<>>

OwnEmitFailed ==
    /\ calls # <<>>
    /\ LastCall.err # Nil
    /\ LastCall.op # "EmitVariant"
    /\ LastCall.id = pathID
    /\ LastCall.segs = ret[1].entry

RECURSIVE EmitCount(_), EmitCountOfAll(_, _)
\* the number of Emitter calls a walk of the schema makes when nothing fails
EmitCount(schema) ==
    CASE schema.Kind = "elements" -> 1 + EmitCount(schema.Elements)
      [] schema.Kind = "values" -> 1 + EmitCount(schema.Values)
      [] schema.Kind = "properties" ->
            1 + EmitCountOfAll(schema.Properties, DOMAIN schema.Properties)
              + EmitCountOfAll(schema.OptionalProperties, DOMAIN schema.OptionalProperties)
      [] schema.Kind = "discriminator" ->
            1 + Cardinality(DOMAIN schema.DiscriminatorMapping)
                * (1 + EmitCountOfAll(schema.Properties, DOMAIN schema.Properties)
                     + EmitCountOfAll(schema.OptionalProperties,
                                      DOMAIN schema.OptionalProperties))
      [] OTHER -> 0

EmitCountOfAll(m, keys) ==
    IF keys = {} THEN 0
    ELSE LET k == CHOOSE k \in keys : TRUE
         IN  EmitCount(m[k]) + EmitCountOfAll(m, keys \ {k})

\* the calls made for the nodes walked beneath the node of call i: same root,
\* a path that extends the path of call i
Beneath(i) ==
    {j \in 1..Len(calls) :
        calls[j].id = calls[i].id /\ IsProperPrefix(calls[i].segs, calls[j].segs)}

\* how many composite nodes are walked beneath the node of a call
NodesBeneath(c) ==
    IF c.op = "EmitVariant"
    THEN EmitCountOfAll(c.schema.Properties, DOMAIN c.schema.Properties)
         + EmitCountOfAll(c.schema.OptionalProperties, DOMAIN c.schema.OptionalProperties)
    ELSE EmitCount(c.schema) - 1

\* C3: every Emitter call comes after the calls for all the composite nodes
\* walked beneath its node, each of which returned without error: none of
\* them is missing and none comes later.
C3_BottomUp ==
    \A i \in 1..Len(calls) :
        /\ \A j \in Beneath(i) : j < i /\ calls[j].err = Nil
        /\ Cardinality(Beneath(i)) = NodesBeneath(calls[i])

\* an EmitUnion has been called after an EmitVariant of its discriminator,
\* itself called after the emission of a property schema resolved for it
C3_Witness ==
    \E i \in 1..Len(calls) :
        /\ calls[i].op = "EmitUnion"
        /\ \E j \in Beneath(i) :
              /\ calls[j].op = "EmitVariant"
              /\ \E k \in Beneath(j) : calls[k].op = "EmitArray"


\* a mapping entry that is not of kind properties
IsBad(variant) == variant.Kind # "properties"

HasBadEntry(schema) ==
    /\ schema.Kind = "discriminator"
    /\ \E k \in DOMAIN schema.DiscriminatorMapping : IsBad(schema.DiscriminatorMapping[k])

RECURSIVE WalksBadEntry(_)
\* the walk of the schema comes to a discriminator with such an entry,
\* whatever the iteration orders, unless an Emitter call fails before
WalksBadEntry(schema) ==
    CASE schema.Kind = "elements" -> WalksBadEntry(schema.Elements)
      [] schema.Kind = "values" -> WalksBadEntry(schema.Values)
      [] schema.Kind = "properties" ->
            \/ \E k \in DOMAIN schema.Properties : WalksBadEntry(schema.Properties[k])
            \/ \E k \in DOMAIN schema.OptionalProperties :
                  WalksBadEntry(schema.OptionalProperties[k])
      [] schema.Kind = "discriminator" ->
            \/ HasBadEntry(schema)
            \/ /\ DOMAIN schema.DiscriminatorMapping # {}
               /\ \/ \E k \in DOMAIN schema.Properties : WalksBadEntry(schema.Properties[k])
                  \/ \E k \in DOMAIN schema.OptionalProperties :
                        WalksBadEntry(schema.OptionalProperties[k])
      [] OTHER -> FALSE

\* the calls made so far at or beneath a position of the root being walked
CallsFrom(entry) ==
    {i \in 1..Len(calls) : calls[i].id = pathID /\ IsPrefix(entry, calls[i].segs)}

\* the positions of the discriminators with an offending entry that are being
\* walked or have just returned
OffendingEntries ==
    {stack[i].entry : i \in {j \in 1..Len(stack) : HasBadEntry(stack[j].schema)}}
    \cup {ret[i].entry : i \in {j \in 1..Len(ret) : HasBadEntry(ret[j].schema)}}

\* C4 as stated: no Emitter call is ever made at or beneath a discriminator
\* that has a mapping entry not of kind properties.
C4_ZeroTypesEmitted ==
    \A entry \in OffendingEntries : CallsFrom(entry) = {}

\* the walk that has just returned is that of a discriminator whose own kind
\* check failed, on the mapping key frame.tag
OwnCheckFailed ==
    /\ Returned /\ ret[1].err # Nil
    /\ ret[1].schema.Kind = "discriminator"
    /\ ret[1].frame.pc = "mapping"
    /\ ret[1].frame.todoMap # {}

\* the EmitVariant calls made for the discriminator that has just returned
VariantCalls ==
    {i \in CallsFrom(ret[1].entry) :
        /\ calls[i].op = "EmitVariant"
        /\ Len(calls[i].segs) = Len(ret[1].entry) + 2}

\* C4 amended: no EmitUnion call is made for such a discriminator and no
\* EmitVariant call for an entry not of kind properties, and Run returns an
\* error; but every entry the iteration visited before the offending one has
\* had its EmitVariant call, so zero types are emitted for the node only when
\* the offending entry is visited first.
C4_NoUnionNoOffendingVariant ==
    /\ \A i \in 1..Len(calls) :
          /\ calls[i].op = "EmitUnion" => ~HasBadEntry(calls[i].schema)
          /\ calls[i].op = "EmitVariant" =>
                ~IsBad(calls[i].schema.DiscriminatorMapping[calls[i].desc.TagValue])
    /\ OwnCheckFailed =>
          LET f == ret[1].frame
              visited == DOMAIN f.schema.DiscriminatorMapping \ f.todoMap
          IN  /\ {calls[i].desc.TagValue : i \in VariantCalls} = visited
              /\ Cardinality(VariantCalls) = Cardinality(visited)
              /\ \A i \in VariantCalls : calls[i].err = Nil
              /\ (CallsFrom(ret[1].entry) = {}) <=> (visited = {})
    /\ (pc = "done" /\ \E i \in 1..Len(registry) : WalksBadEntry(registry[i].Schema))
          => result # Nil

\* the kind check failed on the second entry visited, after the EmitVariant
\* of the first and the emission of its property schema
C4_Witness ==
    /\ OwnCheckFailed
    /\ Len(ret[1].frame.variants) = 1
    /\ Cardinality(CallsFrom(ret[1].entry)) = 2

StructuralPending == Returned /\ ret[1].err = StructuralError

\* C5: once the kind check of a mapping entry has failed, no Emitter call is
\* made and nothing is written; the error goes up unchanged, walk by walk,
\* until Run returns it.
C5_NothingAfterStructuralError ==
    /\ [][StructuralPending =>
            /\ calls' = calls /\ out' = out
            /\ \/ Returned' /\ ret'[1].err = StructuralError
               \/ pc' = "done" /\ result' = StructuralError]_vars
    /\ []((pc = "done" /\ result = StructuralError) =>
            \A i \in 1..Len(calls) : calls[i].err = Nil)

\* Run has returned the structural error after some emission, with a later
\* root schema left unwalked
C5_Witness ==
    /\ pc = "done" /\ result = StructuralError
    /\ calls # <<>>
    /\ idx < Len(registry)

ErrorPending == Returned /\ ret[1].err # Nil

RECURSIVE AllWritten(_, _)
\* what the calls up to the i-th have written, in order
AllWritten(cs, i) == IF i = 0 THEN <<>> ELSE AllWritten(cs, i - 1) \o cs[i].written

\* C7: the first error (of an Emitter call or of the kind check) goes up
\* unchanged until Run returns it; no Emitter call is made after it; the sink
\* only grows and holds everything the calls wrote when Run returns.
C7_FailFast ==
    /\ [][ErrorPending =>
            /\ calls' = calls /\ out' = out
            /\ \/ Returned' /\ ret'[1].err = ret[1].err
               \/ pc' = "done" /\ result' = ret[1].err]_vars
    /\ [][(~ErrorPending /\ ErrorPending') =>
            \/ OwnCheckFailed' /\ ret'[1].err = StructuralError /\ calls' = calls
            \/ Len(calls') = Len(calls) + 1 /\ calls'[Len(calls')].err = ret'[1].err]_vars
    /\ [][IsPrefix(out, out')]_vars
    /\ [](\A i \in 1..Len(calls) : calls[i].err # Nil => i = Len(calls))
    /\ [](out = AllWritten(calls, Len(calls)))
    /\ [](pc = "done" =>
            IF calls # <<>> /\ LastCall.err # Nil
            THEN result = LastCall.err
            ELSE result \in {Nil, StructuralError})

\* Run has returned a write error of the second or a later Emitter call, which
\* had written part of its text, with a later root schema left unwalked
C7_Witness ==
    /\ pc = "done" /\ result \in WriteErrors
    /\ Len(calls) >= 2
    /\ LastCall.written # <<>>
    /\ idx < Len(registry)

RECURSIVE Bytes(_, _)
\* the bytes on the sink: the first n chunks written, one after the other
Bytes(chunks, n) == IF n = 0 THEN "" ELSE Bytes(chunks, n - 1) \o chunks[n]

\* the Emitter calls with their descriptors and the names they returned
Emitted(cs) == [i \in 1..Len(cs) |-> [op |-> cs[i].op, desc |-> cs[i].desc, name |-> cs[i].name]]

\* C8 as stated: a second execution of Run on the same registry makes the
\* same Emitter calls with the same descriptors, gets the same names and
\* writes the same bytes.
C8_SameCallsAndBytes ==
    (pc = "done" /\ result = Nil /\ prev # <<>>) =>
        /\ Emitted(calls) = Emitted(prev[1].calls)
        /\ Bytes(out, Len(out)) = Bytes(prev[1].out, Len(prev[1].out))

\* C9 as stated: two Emitter calls at different positions (another root
\* schema or another path) never return the same name.
C9_NamesCollisionFree ==
    \A i, j \in 1..Len(calls) :
        (calls[i].id # calls[j].id \/ calls[i].segs # calls[j].segs)
            => calls[i].name # calls[j].name

\* the EmitVariant calls made for the discriminator of the EmitUnion call i
VariantCallsOf(i) ==
    {j \in Beneath(i) :
        calls[j].op = "EmitVariant" /\ Len(calls[j].segs) = Len(calls[i].segs) + 2}

RECURSIVE NamesInOrder(_, _)
\* the names the calls of the set js returned, in the order of the calls
NamesInOrder(js, n) ==
    IF n = 0 THEN <<>>
    ELSE NamesInOrder(js, n - 1) \o (IF n \in js THEN <<calls[n].name>> ELSE <<>>)

\* C10: an EmitUnion call follows exactly one EmitVariant call per mapping
\* entry, each with the discriminator's tag name and the entry's key, at the
\* path entry + variants + property(key); its Variants are the names those
\* calls returned, in call order; and walk returns what EmitUnion returns.
C10_VariantsThenUnion ==
    /\ \A i \in 1..Len(calls) :
          calls[i].op = "EmitUnion" =>
             LET vs == VariantCallsOf(i)
                 mapping == calls[i].schema.DiscriminatorMapping
             IN  /\ Cardinality(vs) = Cardinality(DOMAIN mapping)
                 /\ {calls[j].desc.TagValue : j \in vs} = DOMAIN mapping
                 /\ \A j \in vs :
                       /\ calls[j].err = Nil
                       /\ calls[j].desc.TagName = calls[i].schema.DiscriminatorPropertyName
                       /\ calls[j].segs = calls[i].segs
                             \o <<VariantsSegment, PropertySegment(calls[j].desc.TagValue)>>
                 /\ calls[i].desc.Variants = NamesInOrder(vs, Len(calls))
                 /\ \A k \in 1..Len(calls) :
                       (calls[k].op = "EmitUnion" /\ calls[k].id = calls[i].id
                          /\ calls[k].segs = calls[i].segs) => k = i
    /\ (Returned /\ ret[1].schema.Kind = "discriminator" /\ ret[1].err = Nil) =>
          /\ LastCall.op = "EmitUnion"
          /\ LastCall.id = pathID /\ LastCall.segs = ret[1].entry
          /\ LastCall.schema = ret[1].schema
          /\ ret[1].name = LastCall.name

\* the walk of a discriminator with two mapping entries has returned the
\* name of its union
C10_Witness ==
    /\ Returned /\ ret[1].err = Nil
    /\ ret[1].schema.Kind = "discriminator"
    /\ calls # <<>> /\ LastCall.op = "EmitUnion"
    /\ Len(LastCall.desc.Variants) = 2
    /\ ret[1].name = LastCall.name

\* the q-th member the struct template wrote: its name and its type
MemberName(w, q) == w[3 + 5 * (q - 1) + 2]

MemberType(w, q) == w[3 + 5 * (q - 1) + 4]

\* the value a property map of call i holds for key is the name the walk of
\* that child returned: its primitive name, or the name its own Emitter call
\* (made before call i, one segment deeper) returned
IsResolved(i, key, child, value) ==
    IF IsComposite(child)
    THEN \E j \in 1..(i - 1) :
            /\ calls[j].id = calls[i].id
            /\ calls[j].segs = calls[i].segs \o <<PropertySegment(key)>>
            /\ calls[j].op # "EmitVariant"
            /\ calls[j].schema = child
            /\ calls[j].err = Nil
            /\ calls[j].name = value
    ELSE value = PrimitiveName(child)

\* the text of a struct: a head, one member per required property, then one
\* member per optional property with a question mark after its key, each
\* typed with the name held for the key, and a closing brace
IsStructText(w, name, req, opt) ==
    LET n == Cardinality(DOMAIN req)
        m == Cardinality(DOMAIN opt)
    IN  /\ Len(w) = 4 + 5 * (n + m)
        /\ w[1] = "export interface " /\ w[2] = name /\ w[3] = " {"
        /\ w[Len(w)] = "\n}\n"
        /\ {MemberName(w, q) : q \in 1..n} = DOMAIN req
        /\ \A q \in 1..n : MemberType(w, q) = req[MemberName(w, q)]
        /\ {MemberName(w, q) : q \in (n + 1)..(n + m)} = {k \o "?" : k \in DOMAIN opt}
        /\ \A q \in (n + 1)..(n + m) :
              \E k \in DOMAIN opt : MemberName(w, q) = k \o "?" /\ MemberType(w, q) = opt[k]

\* C11: for a properties schema walk calls EmitStruct once, with two maps
\* whose keys are the schema's required and optional property names and whose
\* values are the names resolved for those children; the text written has one
\* member per property, the required ones first and unmarked, the optional
\* ones marked with a question mark, each typed with its child's name.
C11_StructMembers ==
    /\ \A i \in 1..Len(calls) :
          calls[i].op = "EmitStruct" =>
             LET c == calls[i]
                 req == c.desc.RequiredProperties
                 opt == c.desc.OptionalProperties
             IN  /\ c.schema.Kind = "properties"
                 /\ DOMAIN req = DOMAIN c.schema.Properties
                 /\ DOMAIN opt = DOMAIN c.schema.OptionalProperties
                 /\ \A k \in DOMAIN req : IsResolved(i, k, c.schema.Properties[k], req[k])
                 /\ \A k \in DOMAIN opt : IsResolved(i, k, c.schema.OptionalProperties[k], opt[k])
                 /\ \A j \in 1..Len(calls) :
                       (calls[j].op = "EmitStruct" /\ calls[j].id = c.id
                          /\ calls[j].segs = c.segs) => j = i
                 /\ c.err = Nil => IsStructText(c.written, c.name, req, opt)
    /\ (Returned /\ ret[1].schema.Kind = "properties" /\ ret[1].err = Nil) =>
          /\ calls # <<>> /\ LastCall.op = "EmitStruct"
          /\ LastCall.id = pathID /\ LastCall.segs = ret[1].entry
          /\ LastCall.schema = ret[1].schema
          /\ ret[1].name = LastCall.name

\* the walk of a properties schema with a required and an optional composite
\* member has returned, its struct written in full
C11_Witness ==
    /\ Returned /\ ret[1].err = Nil
    /\ ret[1].schema.Kind = "properties"
    /\ \E k \in DOMAIN ret[1].schema.Properties : IsComposite(ret[1].schema.Properties[k])
    /\ \E k \in DOMAIN ret[1].schema.OptionalProperties :
          IsComposite(ret[1].schema.OptionalProperties[k])
    /\ LastCall.op = "EmitStruct" /\ Len(LastCall.written) = 14

RECURSIVE IsPosition(_, _, _)
\* the segments of s from the i-th on lead from the schema to a node walk
\* emits for: a composite node beneath it, or a variant of a discriminator
IsPosition(schema, s, i) ==
    IF i > Len(s) THEN IsComposite(schema)
    ELSE CASE schema.Kind = "elements" ->
                 s[i] = ElementsSegment /\ IsPosition(schema.Elements, s, i + 1)
           [] schema.Kind = "values" ->
                 s[i] = ValuesSegment /\ IsPosition(schema.Values, s, i + 1)
           [] schema.Kind = "properties" ->
                 \/ \E k \in DOMAIN schema.Properties :
                       s[i] = PropertySegment(k) /\ IsPosition(schema.Properties[k], s, i + 1)
                 \/ \E k \in DOMAIN schema.OptionalProperties :
                       /\ s[i] = PropertySegment(k)
                       /\ IsPosition(schema.OptionalProperties[k], s, i + 1)
           [] schema.Kind = "discriminator" ->
                 /\ s[i] = VariantsSegment
                 /\ i + 1 <= Len(s)
                 /\ \E t \in DOMAIN schema.DiscriminatorMapping : s[i + 1] = PropertySegment(t)
                 /\ \/ i + 1 = Len(s)
                    \/ \E k \in DOMAIN schema.Properties :
                          /\ s[i + 2] = PropertySegment(k)
                          /\ IsPosition(schema.Properties[k], s, i + 3)
                    \/ \E k \in DOMAIN schema.OptionalProperties :
                          /\ s[i + 2] = PropertySegment(k)
                          /\ IsPosition(schema.OptionalProperties[k], s, i + 3)
           [] OTHER -> FALSE

\* the Emitter calls made for the root schema with the identifier id
CallsOfRoot(id) == {i \in 1..Len(calls) : calls[i].id = id}

\* C12: Run takes the root schemas in registry order, each with a path of its
\* own, seeded with the root's identifier and without segments: the calls
\* for an earlier root all precede the calls for a later one, a root is
\* walked to its end before the next is begun, and the path of every call
\* leads to a node of the root it was made for.
C12_RootByRoot ==
    /\ stack # <<>> =>
          /\ idx \in 1..Len(registry) /\ pathID = registry[idx].ID
          /\ stack[1].schema = registry[idx].Schema
    /\ \A i, j \in 1..Len(calls) : i < j => calls[i].id <= calls[j].id
    /\ \A i \in 1..Len(calls) :
          /\ calls[i].id \in 1..idx
          /\ IsPosition(registry[calls[i].id].Schema, calls[i].segs, 1)
    /\ \A r \in 1..(idx - 1) :
          /\ Cardinality(CallsOfRoot(registry[r].ID)) = EmitCount(registry[r].Schema)
          /\ \A i \in CallsOfRoot(registry[r].ID) : calls[i].err = Nil
    /\ stack # <<>> => stack[1].entry = <<>>

\* Run has walked two root schemas to the end, with Emitter calls below the
\* root of each
C12_Witness ==
    /\ pc = "done" /\ result = Nil /\ idx = 2
    /\ \E i \in CallsOfRoot(registry[1].ID) : calls[i].segs # <<>>
    /\ \E i \in CallsOfRoot(registry[2].ID) : calls[i].segs # <<>>

\* the segments walk pushes between its entry and the walk of a child, by the
\* place the activation f waits at
Descent(f) ==
    CASE f.pc = "elements" -> <<ElementsSegment>>
      [] f.pc = "values" -> <<ValuesSegment>>
      [] f.pc \in {"required", "optional"} -> <<PropertySegment(f.key)>>
      [] f.pc \in {"variantRequired", "variantOptional"} ->
            <<VariantsSegment, PropertySegment(f.tag), PropertySegment(f.key)>>
      [] OTHER -> <<>>

\* an Emitter call is made in this step
EmitterCalled == Len(calls') = Len(calls) + 1

\* C13: the path of every Emitter call mirrors the descent from the root:
\* every walk is entered with its caller's entry path followed by the
\* segments of the descent to it; EmitArray, EmitStruct, EmitValues and
\* EmitUnion see the path their node's walk was entered with, and EmitVariant
\* sees that of its discriminator followed by a variants marker and a
\* property segment named after the tag value.
C13_PathMirrorsDescent ==
    /\ [](\A k \in 1..Len(stack) :
            stack[k].entry = IF k = 1 THEN <<>>
                             ELSE stack[k - 1].entry \o Descent(stack[k - 1]))
    /\ [][EmitterCalled =>
            LET c == calls'[Len(calls')]
            IN  /\ c.desc.Path.SchemaID = pathID
                /\ c.desc.Path.Segments =
                      IF c.op = "EmitVariant"
                      THEN Top.entry \o <<VariantsSegment, PropertySegment(c.desc.TagValue)>>
                      ELSE Top.entry]_vars

\* an EmitVariant call has been made for a discriminator below the root,
\* after an Emitter call for a property resolved for that variant
C13_Witness ==
    /\ calls # <<>> /\ LastCall.op = "EmitVariant"
    /\ Len(LastCall.segs) >= 3
    /\ \E i \in 1..Len(calls) :
          /\ calls[i].op = "EmitArray"
          /\ calls[i].segs = LastCall.segs \o <<PropertySegment("a")>>

\* walk is about to run for a node of kind empty or of a primitive type
AtLeaf ==
    /\ Walking /\ Top.pc = "start" /\ ret = <<>>
    /\ \/ Top.schema.Kind = "empty"
       \/ /\ Top.schema.Kind = "type"
          /\ Top.schema.Type \in {"null", "boolean", "number", "string"}

\* the Emitter's name for a node of kind empty or of a primitive type
LeafToken(schema) ==
    IF schema.Kind = "empty" THEN PrimitiveEmpty
    ELSE IF schema.Type = "null" THEN PrimitiveNull
    ELSE IF schema.Type = "boolean" THEN PrimitiveBoolean
    ELSE IF schema.Type = "number" THEN PrimitiveNumber
    ELSE PrimitiveString

\* C14: for a node of kind empty or of a primitive type walk returns the
\* Emitter's name for it and no error, leaves the path as it is, makes no
\* Emitter call and writes nothing.
C14_LeafReturnsPrimitive ==
    [][AtLeaf =>
        /\ Returned'
        /\ ret'[1].name = LeafToken(Top.schema) /\ ret'[1].err = Nil
        /\ ret'[1].name \in {"any", "null", "boolean", "number", "string"}
        /\ segs' = segs /\ pathID' = pathID
        /\ calls' = calls /\ out' = out
        /\ stack' = SubSeq(stack, 1, Len(stack) - 1)]_vars

\* the walk of a number below the root has returned, after Emitter calls that
\* wrote to the sink
C14_Witness ==
    /\ Returned /\ ret[1].schema = SType("number")
    /\ ret[1].name = "number"
    /\ ret[1].entry # <<>>
    /\ calls # <<>> /\ out # <<>>

\* the walk of the child of an elements or of a values node has just returned
\* to it
ChildReturned == Walking /\ Top.pc \in {"elements", "values"} /\ Returned

\* C15: when the walk of its child has returned a name, an elements node
\* calls EmitArray, and a values node EmitValues, once, with that name as
\* Elements / Values, and walk returns the name and the error of that call;
\* there is never a second such call for the node. An array of strings at
\* the empty path is written with the Emitter's name for string as its
\* element type.
C15_ChildNameThreaded ==
    /\ [][ChildReturned =>
            IF ret[1].err = Nil
            THEN LET c == calls'[Len(calls')]
                 IN  /\ EmitterCalled
                     /\ c.schema = Top.schema
                     /\ Top.schema.Kind = "elements" =>
                           (c.op = "EmitArray" /\ c.desc.Elements = ret[1].name)
                     /\ Top.schema.Kind = "values" =>
                           (c.op = "EmitValues" /\ c.desc.Values = ret[1].name)
                     /\ Returned' /\ ret'[1].name = c.name /\ ret'[1].err = c.err
                     /\ ret'[1].schema = Top.schema
                     /\ c.name # ""
            ELSE calls' = calls /\ Returned' /\ ret'[1].err = ret[1].err]_vars
    /\ [](\A i, j \in 1..Len(calls) :
            (calls[i].op \in {"EmitArray", "EmitValues"} /\ calls[j].op = calls[i].op
               /\ calls[j].id = calls[i].id /\ calls[j].segs = calls[i].segs) => i = j)
    /\ [](\A i \in 1..Len(calls) :
            (calls[i].schema = SElements(SType("string")) /\ calls[i].segs = <<>>) =>
               /\ calls[i].op = "EmitArray" /\ calls[i].desc.Elements = PrimitiveString
               /\ calls[i].err = Nil =>
                     calls[i].written = <<"export type ", "Default", " = ", "string", "[];\n">>)

\* a values node over an array of strings has returned the name EmitValues
\* gave it, after EmitArray was called with the name of string
C15_Witness ==
    /\ Returned /\ ret[1].err = Nil
    /\ ret[1].schema = SValues(SElements(SType("string")))
    /\ Len(calls) >= 2
    /\ LastCall.op = "EmitValues" /\ LastCall.desc.Values = calls[Len(calls) - 1].name
    /\ calls[Len(calls) - 1].op = "EmitArray"
    /\ calls[Len(calls) - 1].desc.Elements = "string"
    /\ ret[1].name = LastCall.name
    /\ \E i \in 1..Len(calls) :
          calls[i].schema = SElements(SType("string")) /\ calls[i].segs = <<>>

\* C16: the property maps of every EmitVariant call have the keys of the
\* discriminator schema's own required / optional properties, the same for
\* every variant, each value resolved for that variant under the variant's
\* path followed by the property's key; the properties of the mapping entry
\* itself are never walked: every Emitter call beneath a variant is for a
\* property of the discriminator, and none is made for the entry.
C16_VariantsInheritProperties ==
    \A i \in 1..Len(calls) :
        calls[i].op = "EmitVariant" =>
           LET c == calls[i]
               d == c.schema
               req == c.desc.RequiredProperties
               opt == c.desc.OptionalProperties
               n == Len(c.segs)
           IN  /\ d.Kind = "discriminator"
               /\ c.desc.TagValue \in DOMAIN d.DiscriminatorMapping
               /\ c.segs[n] = PropertySegment(c.desc.TagValue)
               /\ DOMAIN req = DOMAIN d.Properties
               /\ DOMAIN opt = DOMAIN d.OptionalProperties
               /\ \A k \in DOMAIN req : IsResolved(i, k, d.Properties[k], req[k])
               /\ \A k \in DOMAIN opt : IsResolved(i, k, d.OptionalProperties[k], opt[k])
               /\ \A j \in Beneath(i) :
                     \/ \E k \in DOMAIN d.Properties :
                           /\ calls[j].segs[n + 1] = PropertySegment(k)
                           /\ IsPosition(d.Properties[k], calls[j].segs, n + 2)
                     \/ \E k \in DOMAIN d.OptionalProperties :
                           /\ calls[j].segs[n + 1] = PropertySegment(k)
                           /\ IsPosition(d.OptionalProperties[k], calls[j].segs, n + 2)
               /\ \A j \in 1..Len(calls) :
                     (calls[j].id = c.id /\ calls[j].segs = c.segs) =>
                        (calls[j].op = "EmitVariant" /\ j = i)

\* EmitVariant has been called for a mapping entry that has a composite
\* required property of its own under a key the discriminator gives a string
C16_Witness ==
    /\ calls # <<>> /\ LastCall.op = "EmitVariant" /\ LastCall.err = Nil
    /\ LET own == LastCall.schema.DiscriminatorMapping[LastCall.desc.TagValue]
       IN  /\ "a" \in DOMAIN own.Properties /\ IsComposite(own.Properties["a"])
           /\ LastCall.desc.RequiredProperties = ("a" :> "string")
           /\ DOMAIN LastCall.desc.OptionalProperties = {"b"}
           /\ Cardinality(Beneath(Len(calls))) = 1

\* the text has a member for the tag: the tag's name, typed as the string
\* literal of the tag's value
HasTagMember(w, tagName, tagValue) ==
    \E q \in 1..(Len(w) - 3) :
        /\ w[q] = tagName
        /\ w[q + 1] = ": \""
        /\ w[q + 2] = tagValue
        /\ w[q + 3] = "\";"

\* the body of a written type: its text after the name
Body(w) == SubSeq(w, 3, Len(w))

\* C17 as stated: the text written for a variant has the member for the tag
\* (TagName typed as the string literal TagValue) besides one member per
\* property, so the texts of two variants of one union with different tag
\* values differ in their bodies.
C17_VariantTextHasTag ==
    /\ \A i \in 1..Len(calls) :
          (calls[i].op = "EmitVariant" /\ calls[i].err = Nil) =>
             HasTagMember(calls[i].written, calls[i].desc.TagName, calls[i].desc.TagValue)
    /\ \A i, j \in 1..Len(calls) :
          (/\ calls[i].op = "EmitVariant" /\ calls[j].op = "EmitVariant"
           /\ calls[i].err = Nil /\ calls[j].err = Nil
           /\ calls[i].id = calls[j].id
           /\ Pop(calls[i].segs) = Pop(calls[j].segs)
           /\ calls[i].desc.TagValue # calls[j].desc.TagValue)
             => Body(calls[i].written) # Body(calls[j].written)

RECURSIVE Nodes(_, _, _), NodesOfAll(_, _, _, _)
\* the composite nodes of a schema tree entered at the path p, each with the
\* path it is emitted at: an elements, values, properties or discriminator
\* node, or an entry of a mapping (a variant). A discriminator's properties
\* count once under every variant; the properties of the mapping entries
\* themselves count when own is TRUE.
Nodes(schema, p, own) ==
    CASE schema.Kind = "elements" ->
            {[segs |-> p, schema |-> schema]}
            \cup Nodes(schema.Elements, p \o <<ElementsSegment>>, own)
      [] schema.Kind = "values" ->
            {[segs |-> p, schema |-> schema]}
            \cup Nodes(schema.Values, p \o <<ValuesSegment>>, own)
      [] schema.Kind = "properties" ->
            {[segs |-> p, schema |-> schema]}
            \cup NodesOfAll(schema.Properties, DOMAIN schema.Properties, p, own)
            \cup NodesOfAll(schema.OptionalProperties, DOMAIN schema.OptionalProperties, p, own)
      [] schema.Kind = "discriminator" ->
            {[segs |-> p, schema |-> schema]}
            \cup UNION {
                  LET q == p \o <<VariantsSegment, PropertySegment(t)>>
                      entry == schema.DiscriminatorMapping[t]
                  IN  {[segs |-> q, schema |-> entry]}
                      \cup NodesOfAll(schema.Properties, DOMAIN schema.Properties, q, own)
                      \cup NodesOfAll(schema.OptionalProperties,
                                      DOMAIN schema.OptionalProperties, q, own)
                      \cup IF own /\ entry.Kind = "properties"
                           THEN NodesOfAll(entry.Properties, DOMAIN entry.Properties, q, own)
                                \cup NodesOfAll(entry.OptionalProperties,
                                                DOMAIN entry.OptionalProperties, q, own)
                           ELSE {}
                  : t \in DOMAIN schema.DiscriminatorMapping}
      [] OTHER -> {}

NodesOfAll(m, keys, p, own) ==
    UNION {Nodes(m[k], p \o <<PropertySegment(k)>>, own) : k \in keys}

\* an Emitter call was made, without error, for the node of the r-th root
IsWalked(r, node) ==
    \E i \in CallsOfRoot(registry[r].ID) :
        /\ calls[i].segs = node.segs
        /\ calls[i].err = Nil
        /\ IF calls[i].op = "EmitVariant"
           THEN calls[i].schema.DiscriminatorMapping[calls[i].desc.TagValue] = node.schema
           ELSE calls[i].schema = node.schema

\* C18 as stated (its nil return): when Run returns nil, every node of every
\* root schema has been walked, the properties of mapping entries included.
C18_EveryNodeWalked ==
    (pc = "done" /\ result = Nil) =>
        \A r \in 1..Len(registry) :
            \A node \in Nodes(registry[r].Schema, <<>>, TRUE) : IsWalked(r, node)

\* walk is about to pop a segment
PopPending ==
    /\ Walking
    /\ \/ /\ Top.pc \in {"elements", "values", "required", "optional",
                         "variantRequired", "variantOptional"}
          /\ Returned /\ ret[1].err = Nil
       \/ Top.pc = "mapping" /\ ret = <<>> /\ Top.todoMap = {}
       \/ Top.pc = "variant" /\ ret = <<>> /\ Top.todoReq = {} /\ Top.todoOpt = {}

\* C18 amended: Run terminates. It returns nil after having walked every
\* root schema to the end, which takes it to every node but the properties
\* of the mapping entries themselves, or it returns the first error, no call
\* before the failing one having failed; and every Pop is applied to a path
\* that still holds a segment its own walk pushed.
C18_Terminates ==
    /\ <>(pc = "done")
    /\ []((pc = "done" /\ result = Nil) =>
            /\ idx = Len(registry) /\ stack = <<>>
            /\ \A r \in 1..Len(registry) :
                  \A node \in Nodes(registry[r].Schema, <<>>, FALSE) : IsWalked(r, node)
            /\ \A i \in 1..Len(calls) : calls[i].err = Nil)
    /\ []((pc = "done" /\ result # Nil) =>
            /\ \A i \in 1..(Len(calls) - 1) : calls[i].err = Nil
            /\ \/ result = StructuralError /\ \A i \in 1..Len(calls) : calls[i].err = Nil
               \/ calls # <<>> /\ LastCall.err = result)
    /\ [](PopPending => (Len(segs) > 0 /\ Len(segs) > Len(Top.entry)))

\* Run has returned nil on two root schemas, one with a path three segments
\* deep, every segment popped
C18_Witness ==
    /\ pc = "done" /\ result = Nil
    /\ Len(registry) = 2
    /\ segs = <<>>
    /\ \E i \in 1..Len(calls) : Len(calls[i].segs) >= 3

====
